---- MODULE Spec2Model ----
(***************************************************************************)
(* Model of scripts/pretty_trace.py: the trace pretty-printer of stylusdb.  *)
(* One run of main() is modelled: the two trace documents are loaded, the  *)
(* selector -> call map is built (decode_selector with its cache), the     *)
(* call tree is built and rendered by print_call_node / print_sol_node.    *)
(*                                                                         *)
(* Strings are kept as strings where the code only compares them           *)
(* (selectors, signatures); a qualified Rust symbol is the sequence of its *)
(* "::"-separated segments; an argument list is its length; a secondary    *)
(* call's input is its first ten characters plus its length.  Frames are   *)
(* referred to by their position in the input list (Python keeps object    *)
(* references to the list's dicts).                                        *)
(***************************************************************************)
EXTENDS Integers, Sequences, FiniteSets, TLC

VARIABLES
    walnut_file,        \* sys.argv[1]: [stat, status, calls]
    sol_file,           \* sys.argv[2]: [stat, calls]
    service,            \* the answers 4byte.directory may give in this run
    pc,                 \* position of main()
    status,             \* walnut_json.get("status")
    walnut,             \* walnut_json.get("calls")
    sol_calls,          \* sol_json.get("calls")
    map_i,              \* loop index of create_sol_function_map
    sol_function_map,   \* function name -> index of the top-level sol call
    selector_cache,     \* module-level selector_cache
    requests,           \* the HTTP requests issued, in order: [sel, resp, sig]
    roots,              \* build_call_tree: roots
    tree,               \* build_call_tree: tree (parent id -> children)
    stack,              \* pending print_call_node / print_sol_node invocations
    out                 \* the console, one record per printed line

vars == <<walnut_file, sol_file, service, pc, status, walnut, sol_calls, map_i,
          sol_function_map, selector_cache, requests, roots, tree, stack, out>>

----------------------------------------------------------------------------
(* Bounds of the model *)

MaxFrames == 3
MaxId == 2
MaxArgs == 4
MaxExtra == 3
MaxSol == 2

----------------------------------------------------------------------------
(* Generic helpers *)

SeqsUpTo(S, n) == UNION {[1..k -> S] : k \in 0..n}

RECURSIVE Concat(_)
Concat(ss) == IF ss = <<>> THEN <<>> ELSE Head(ss) \o Concat(Tail(ss))

----------------------------------------------------------------------------
(* Strings of the model *)

\* len(raw) for each 10-character prefix input[:10] of the model.
RawLen(raw) ==
    CASE raw = "" -> 0
      [] raw = "0x1234567" -> 9
      [] raw = "0xaaaaaaaa" -> 10
      [] raw = "0xbbbbbbbb" -> 10

\* A JSON null where a string is expected (Python's None).
None == "<None>"

\* "(" in s, for the signatures and selectors of the model.
HasParen(s) == s \in {"f(uint256)", "g()"}

\* s.split("(")[0]
BeforeParen(s) ==
    CASE s = "f(uint256)" -> "f"
      [] s = "g()" -> "g"
      [] OTHER -> s

----------------------------------------------------------------------------
(* Input documents *)

Frame(id, p, fn, n, e) ==
    [call_id |-> id, parent_call_id |-> p, function |-> fn, nargs |-> n,
     error |-> e, error_message |-> e]

\* A secondary call's "input": its first 10 characters and its length.
Input(raw, extra) == [raw |-> raw, len |-> RawLen(raw) + extra]

SolCall(inp, calls) == [input |-> inp, calls |-> calls]

FnNames == {<<"f">>, <<"m", "f", "h1">>, <<"m", "g", "h2">>}

\* The node of the secondary trace at a path: <<t, c1, c2, ...>> is child c2
\* of child c1 of top-level call t.
RECURSIVE NodeIn(_, _)
NodeIn(calls, path) ==
    IF Len(path) = 1 THEN calls[path[1]]
    ELSE NodeIn(calls[path[1]].calls, Tail(path))

----------------------------------------------------------------------------
(* decode_selector *)

Sig(s) == [has_text_signature |-> TRUE, text_signature |-> s]
NoSig == [has_text_signature |-> FALSE, text_signature |-> ""]
Resp(kind, results) == [kind |-> kind, results |-> results]

\* What one GET of the signature directory can produce.
Responses ==
    {Resp("connection_error", <<>>), Resp("timeout", <<>>),
     Resp("http_error", <<>>), Resp("invalid_json", <<>>),
     Resp("not_object", <<>>), Resp("json", <<>>),
     Resp("json", <<NoSig>>), Resp("json", <<NoSig, Sig("f(uint256)")>>),
     Resp("json", <<Sig("f(uint256)")>>),
     Resp("json", <<Sig("g()"), Sig("f(uint256)")>>),
     Resp("json", <<Sig("transfer")>>), Resp("json", <<Sig(None)>>)}

CoreResponses ==
    {Resp("timeout", <<>>), Resp("json", <<Sig("f(uint256)")>>),
     Resp("json", <<Sig("g()"), Sig("f(uint256)")>>)}

\* The exception raised inside the try block, "none" when it runs through.
ExceptionOf(resp) ==
    CASE resp.kind = "connection_error" -> "ConnectionError"  \* requests.get
      [] resp.kind = "timeout" -> "Timeout"                    \* requests.get
      [] resp.kind = "http_error" -> "HTTPError"               \* raise_for_status
      [] resp.kind = "invalid_json" -> "JSONDecodeError"       \* r.json()
      [] resp.kind = "not_object" -> "AttributeError"          \* data.get
      [] OTHER -> "none"

\* Mutant of Caught: except requests.RequestException.
CaughtRequestsOnly(exc) == exc \in {"ConnectionError", "Timeout", "HTTPError"}

\* except Exception: every exception of the try block is caught.
Caught(exc) == TRUE

\* The value of sig when the try block runs through.
TrySig(sel, resp) ==
    IF resp.results # <<>> /\ resp.results[1].has_text_signature
    THEN resp.results[1].text_signature
    ELSE sel

\* Mutant of decode_selector: only a resolved signature is cached.
decode_selector_resolved_only(sel, resp, cache) ==
    IF sel \in DOMAIN cache
    THEN [sig |-> cache[sel], cache |-> cache, requested |-> FALSE,
          raised |-> FALSE, exc |-> "none"]
    ELSE LET sig == IF ExceptionOf(resp) = "none" THEN TrySig(sel, resp)
                    ELSE sel
         IN  [sig |-> sig,
              cache |-> IF sig = sel THEN cache
                        ELSE [s \in DOMAIN cache \cup {sel} |->
                                 IF s = sel THEN sig ELSE cache[s]],
              requested |-> TRUE, raised |-> FALSE, exc |-> "none"]

\* decode_selector(sel) when the directory answers resp (if it is asked):
\* the value returned, the cache afterwards, whether a request was issued,
\* and whether an exception left the function.
decode_selector(sel, resp, cache) ==
    IF sel \in DOMAIN cache
    THEN [sig |-> cache[sel], cache |-> cache, requested |-> FALSE,
          raised |-> FALSE, exc |-> "none"]
    ELSE LET exc == ExceptionOf(resp)
             sig == IF exc = "none" THEN TrySig(sel, resp) ELSE sel
         IN  IF exc # "none" /\ ~Caught(exc)
             THEN [sig |-> sel, cache |-> cache, requested |-> TRUE,
                   raised |-> TRUE, exc |-> exc]
             ELSE [sig |-> sig,
                   cache |-> [s \in DOMAIN cache \cup {sel} |->
                                 IF s = sel THEN sig ELSE cache[s]],
                   requested |-> TRUE, raised |-> FALSE, exc |-> "none"]

\* The request log after a decode_selector call.
Logged(sel, resp, d) ==
    IF d.requested
    THEN Append(requests, [sel |-> sel, resp |-> resp, sig |-> d.sig,
                           raised |-> d.raised])
    ELSE requests

----------------------------------------------------------------------------
(* build_call_tree *)

\* Mutant of TreeAppend: tree[p] = [i].
TreeAssign(t, p, i) ==
    [q \in DOMAIN t \cup {p} |-> IF q = p THEN <<i>> ELSE t[q]]

\* Mutant of TreeAppend: tree[p].insert(0, i).
TreePrepend(t, p, i) ==
    [q \in DOMAIN t \cup {p} |->
        IF q = p THEN (IF p \in DOMAIN t THEN <<i>> \o t[p] ELSE <<i>>)
        ELSE t[q]]

\* tree[p].append(i) on a defaultdict(list)
TreeAppend(t, p, i) ==
    [q \in DOMAIN t \cup {p} |->
        IF q = p THEN (IF p \in DOMAIN t THEN Append(t[p], i) ELSE <<i>>)
        ELSE t[q]]

\* Mutant of BuildLoop: the else is missing, a root is also put in tree[0].
RECURSIVE BuildLoopNoElse(_, _, _, _)
BuildLoopNoElse(call_list, i, rs, t) ==
    IF i > Len(call_list) THEN [roots |-> rs, tree |-> t]
    ELSE LET p == call_list[i].parent_call_id
             q == IF p \in DOMAIN t THEN Append(t[p], i) ELSE <<i>>
             u == [x \in DOMAIN t \cup {p} |-> IF x = p THEN q ELSE t[x]]
         IN  BuildLoopNoElse(call_list, i + 1,
                             IF p = 0 THEN Append(rs, i) ELSE rs, u)

\* Mutant of BuildLoop: a frame whose parent is not in the list is a root.
RECURSIVE BuildLoopOrphanRoots(_, _, _, _)
BuildLoopOrphanRoots(call_list, i, rs, t) ==
    IF i > Len(call_list) THEN [roots |-> rs, tree |-> t]
    ELSE LET p == call_list[i].parent_call_id
             q == IF p \in DOMAIN t THEN Append(t[p], i) ELSE <<i>>
             u == [x \in DOMAIN t \cup {p} |-> IF x = p THEN q ELSE t[x]]
         IN  IF p = 0 \/ \A j \in DOMAIN call_list : call_list[j].call_id # p
             THEN BuildLoopOrphanRoots(call_list, i + 1, Append(rs, i), t)
             ELSE BuildLoopOrphanRoots(call_list, i + 1, rs, u)

\* The for loop of build_call_tree from frame i on.
RECURSIVE BuildLoop(_, _, _, _)
BuildLoop(call_list, i, rs, t) ==
    IF i > Len(call_list) THEN [roots |-> rs, tree |-> t]
    ELSE LET p == call_list[i].parent_call_id
         IN  IF p = 0
             THEN BuildLoop(call_list, i + 1, Append(rs, i), t)
             ELSE BuildLoop(call_list, i + 1, rs, TreeAppend(t, p, i))

build_call_tree(call_list) == BuildLoop(call_list, 1, <<>>, <<>>)

\* tree.get(id, [])
TreeGet(t, id) == IF id \in DOMAIN t THEN t[id] ELSE <<>>

----------------------------------------------------------------------------
(* Correlation *)

\* symbol.rsplit("::", 1)[0].rsplit("::", 1)[-1] on the symbol's segments
extract_function_name(symbol) ==
    LET without_hash == IF Len(symbol) >= 2
                        THEN SubSeq(symbol, 1, Len(symbol) - 1)
                        ELSE symbol
    IN  without_hash[Len(without_hash)]

\* Mutant of matches_argument_pattern: one implicit argument, not two.
matches_argument_pattern_one_implicit(nargs, sol_call) ==
    sol_call.input.len - 10 = nargs - 1

matches_argument_pattern(nargs, sol_call) ==
    LET num_of_sol_args == sol_call.input.len - 10
        num_of_rust_args == nargs - 2
    IN  num_of_sol_args = num_of_rust_args

----------------------------------------------------------------------------
(* Console lines and pending invocations *)

Line(kind, idx, k, path, level, is_last, prefix, text) ==
    [kind |-> kind, idx |-> idx, k |-> k, path |-> path, level |-> level,
     is_last |-> is_last, prefix |-> prefix, text |-> text]

Plain(kind, idx) == Line(kind, idx, 0, <<>>, 0, FALSE, <<>>, "")

\* The traceback of an exception nothing catches; the exit status is then 1.
Traceback(exc) == Line("traceback", 0, 0, <<>>, 0, FALSE, <<>>, exc)

Item(kind, idx, path, level, is_last, prefix) ==
    [kind |-> kind, idx |-> idx, path |-> path, level |-> level,
     is_last |-> is_last, prefix |-> prefix]

\* The deepest level the interpreter's recursion limit lets a print_*_node
\* invocation reach; past it the call raises RecursionError.  CPython's
\* default limit is 1000; the model keeps it above the depth of every
\* forest and splice within its bounds, so that only a recursion that
\* re-enters a frame reaches it.
RecursionLimit == MaxFrames + 4

\* The lines print_call_node prints for the frame itself (lines 145-173).
OwnLinesOf(call, i, level, is_last, prefix) ==
    <<Line("call", i, 0, <<>>, level, is_last, prefix, "")>>
    \o (IF call.error /\ call.error_message
        THEN <<Line("error_message", i, 0, <<>>, level, is_last, prefix, "")>>
        ELSE <<>>)
    \o [k \in 1..call.nargs |->
            Line("arg", i, k, <<>>, level, is_last, prefix, "")]

OwnLines(i, level, is_last, prefix) ==
    OwnLinesOf(walnut[i], i, level, is_last, prefix)

\* The invocations a loop over a list of children makes, in order.
ChildItems(kind, children, paths, level, newp) ==
    [k \in 1..Len(children) |->
        Item(kind, children[k], paths[k], level + 1, k = Len(children), newp)]

----------------------------------------------------------------------------
(* The input families of the model *)

OkWalnut(st, calls) == [stat |-> "ok", status |-> st, calls |-> calls]
NoSol == [stat |-> "absent", calls |-> <<>>]
OkSol(calls) == [stat |-> "ok", calls |-> calls]

FileStats == {"absent", "missing", "unreadable", "invalid_json", "ok"}

PlainFrames ==
    {Frame(id, p, <<"f">>, 0, FALSE) : id \in 0..MaxId, p \in 0..MaxId}

ErrorFrames ==
    {Frame(id, p, <<"f">>, 0, e) : id \in 0..MaxId, p \in 0..MaxId,
                                   e \in BOOLEAN}

\* A nested secondary subtree: a child with a child of its own, then a leaf.
SolSubtree ==
    <<SolCall(Input("0xbbbbbbbb", 1), <<SolCall(Input("0x1234567", 0), <<>>)>>),
      SolCall(Input("", 0), <<>>)>>

TopSolCalls ==
    {SolCall(Input("0xaaaaaaaa", x), c) :
        x \in 0..MaxExtra, c \in {<<>>, SolSubtree}}
    \cup {SolCall(Input("0xbbbbbbbb", 2), <<>>),
          SolCall(Input("0x1234567", 0), <<>>)}

LeafSolCalls ==
    {SolCall(Input(raw, 2), <<>>) : raw \in {"0xaaaaaaaa", "0xbbbbbbbb"}}

\* Every combination of the two files' states, on one small document each.
InitFiles ==
    /\ walnut_file \in
         {[stat |-> s, status |-> "error",
           calls |-> <<Frame(1, 0, <<"f">>, 4, TRUE),
                       Frame(2, 1, <<"m", "g", "h2">>, 0, FALSE)>>] :
             s \in FileStats}
    /\ sol_file \in
         {[stat |-> s,
           calls |-> <<SolCall(Input("0xaaaaaaaa", 2), <<>>)>>] :
             s \in FileStats}
    /\ service = CoreResponses

\* Every list of up to MaxFrames frames over the identifiers 0..MaxId.
InitShapes ==
    /\ walnut_file \in
         {OkWalnut("success", c) : c \in SeqsUpTo(PlainFrames, MaxFrames)}
    /\ sol_file = NoSol
    /\ service = CoreResponses

\* Shorter lists with error flags, under both statuses.
InitErrors ==
    /\ walnut_file \in
         {OkWalnut(st, c) : st \in {"success", "error"},
                            c \in SeqsUpTo(ErrorFrames, MaxFrames - 1)}
    /\ sol_file = NoSol
    /\ service = CoreResponses

\* A root with a child, against every secondary trace of up to MaxSol calls.
InitCorrelation ==
    /\ walnut_file \in
         {OkWalnut("success",
                   <<Frame(1, 0, fn, n, FALSE),
                     Frame(2, 1, <<"m", "g", "h2">>, 2, FALSE)>>) :
             fn \in FnNames, n \in 0..MaxArgs}
    /\ sol_file \in {OkSol(c) : c \in SeqsUpTo(TopSolCalls, MaxSol)}
    /\ service = CoreResponses

\* Every answer of the directory, on small secondary traces.
InitSelectors ==
    /\ walnut_file = OkWalnut("success", <<Frame(1, 0, <<"m", "f", "h1">>, 4, FALSE)>>)
    /\ sol_file \in {OkSol(c) : c \in SeqsUpTo(LeafSolCalls, MaxSol)}
    /\ service = Responses

Init ==
    /\ \/ InitFiles
       \/ InitShapes
       \/ InitErrors
       \/ InitCorrelation
       \/ InitSelectors
    /\ pc = "start"
    /\ status = "success"
    /\ walnut = <<>>
    /\ sol_calls = <<>>
    /\ map_i = 1
    /\ sol_function_map = <<>>
    /\ selector_cache = <<>>
    /\ requests = <<>>
    /\ roots = <<>>
    /\ tree = <<>>
    /\ stack = <<>>
    /\ out = <<>>

----------------------------------------------------------------------------
(* main *)

\* What json.load(open(path)) raises on a file that is_file() accepts.
LoadException(st) ==
    IF st = "unreadable" THEN "PermissionError" ELSE "JSONDecodeError"

\* Lines 247-259: the usage check, the primary file's checks and its load.
LoadWalnut ==
    /\ pc = "start"
    /\ LET st == walnut_file.stat
       IN  CASE st = "absent" ->
                  /\ out' = Append(out, Plain("usage", 0))
                  /\ pc' = "failed"
                  /\ UNCHANGED <<status, walnut>>
             [] st = "missing" ->
                  /\ out' = Append(out, Plain("no_such_file", 0))
                  /\ pc' = "failed"
                  /\ UNCHANGED <<status, walnut>>
             [] st \in {"unreadable", "invalid_json"} ->
                  \* open() or json.load() raises; nothing catches it
                  /\ out' = Append(out, Traceback(LoadException(st)))
                  /\ pc' = "failed"
                  /\ UNCHANGED <<status, walnut>>
             [] OTHER ->
                  /\ status' = walnut_file.status
                  /\ walnut' = walnut_file.calls
                  /\ pc' = "summary"
                  /\ UNCHANGED out
    /\ UNCHANGED <<walnut_file, sol_file, service, sol_calls, map_i,
                   sol_function_map, selector_cache, requests, roots, tree,
                   stack>>

\* next((c for c in walnut if c.get("error")), None): 0 stands for None
FirstError(calls) ==
    IF \E i \in DOMAIN calls : calls[i].error
    THEN CHOOSE i \in DOMAIN calls :
            /\ calls[i].error
            /\ \A j \in 1..(i - 1) : ~calls[j].error
    ELSE 0

\* Lines 261-269: the error summary.
ErrorSummary ==
    /\ pc = "summary"
    /\ LET e == FirstError(walnut)
       IN  out' = IF status = "error" /\ e # 0
                  THEN out \o <<Plain("summary", 0),
                                Plain("summary_location", e),
                                Plain("summary_function", e)>>
                           \o (IF walnut[e].error_message
                               THEN <<Plain("summary_message", e)>>
                               ELSE <<>>)
                  ELSE out
    /\ pc' = "sol"
    /\ UNCHANGED <<walnut_file, sol_file, service, status, walnut, sol_calls,
                   map_i, sol_function_map, selector_cache, requests, roots,
                   tree, stack>>

\* Lines 271-278: the optional secondary file.
LoadSol ==
    /\ pc = "sol"
    /\ LET st == sol_file.stat
       IN  CASE st \in {"absent", "missing"} ->
                  \* no argv[2], or is_file() is false: skipped
                  /\ pc' = "build"
                  /\ UNCHANGED <<sol_calls, out>>
             [] st \in {"unreadable", "invalid_json"} ->
                  /\ out' = Append(out, Traceback(LoadException(st)))
                  /\ pc' = "failed"
                  /\ UNCHANGED sol_calls
             [] OTHER ->
                  /\ sol_calls' = sol_file.calls
                  /\ pc' = IF sol_file.calls = <<>> THEN "build" ELSE "map"
                  /\ UNCHANGED out
    /\ UNCHANGED <<walnut_file, sol_file, service, status, walnut, map_i,
                   sol_function_map, selector_cache, requests, roots, tree,
                   stack>>

\* function_map[function_name] = call
MapPut(m, name, t) ==
    [n \in DOMAIN m \cup {name} |-> IF n = name THEN t ELSE m[n]]

\* Lines 199-208: one iteration of the loop of create_sol_function_map.
CreateSolFunctionMap ==
    /\ pc = "map"
    /\ LET call == sol_calls[map_i]
           next == IF map_i = Len(sol_calls) THEN "build" ELSE "map"
       IN  IF call.input.len >= 10
           THEN \E resp \in service :
                  LET d == decode_selector(call.input.raw, resp, selector_cache)
                  IN  /\ selector_cache' = d.cache
                      /\ requests' = Logged(call.input.raw, resp, d)
                      /\ IF d.raised \/ d.sig = None
                         THEN \* d.sig = None: "(" in None raises TypeError
                              /\ out' = Append(out, Traceback(
                                     IF d.raised THEN d.exc ELSE "TypeError"))
                              /\ pc' = "failed"
                              /\ UNCHANGED sol_function_map
                         ELSE /\ sol_function_map' =
                                   IF HasParen(d.sig)
                                   THEN MapPut(sol_function_map,
                                               BeforeParen(d.sig), map_i)
                                   ELSE sol_function_map
                              /\ pc' = next
                              /\ UNCHANGED out
           ELSE /\ pc' = next
                /\ UNCHANGED <<selector_cache, requests, sol_function_map, out>>
    /\ map_i' = map_i + 1
    /\ UNCHANGED <<walnut_file, sol_file, service, status, walnut, sol_calls,
                   roots, tree, stack>>

\* Lines 289-294: build the tree, print the header, start the loop over roots.
BuildCallTree ==
    /\ pc = "build"
    /\ LET b == build_call_tree(walnut)
       IN  /\ roots' = b.roots
           /\ tree' = b.tree
           /\ stack' = ChildItems("call", b.roots,
                                  [k \in DOMAIN b.roots |-> <<>>], -1, <<>>)
    /\ out' = Append(out, Plain("tree_header", 0))
    /\ pc' = "render"
    /\ UNCHANGED <<walnut_file, sol_file, service, status, walnut, sol_calls,
                   map_i, sol_function_map, selector_cache, requests>>

\* The secondary call print_call_node splices under frame i (lines 175-181).
SolItems(i, level, newp) ==
    LET dfn == extract_function_name(walnut[i].function)
    IN  IF dfn \in DOMAIN sol_function_map
           /\ matches_argument_pattern(walnut[i].nargs,
                                       sol_calls[sol_function_map[dfn]])
        THEN <<Item("sol", 0, <<sol_function_map[dfn]>>, level + 1, TRUE, newp)>>
        ELSE <<>>

\* Mutant of CallItems: the children are processed before the splice.
CallItemsChildrenFirst(i, level, newp) ==
    LET children == TreeGet(tree, walnut[i].call_id)
    IN  ChildItems("call", children, [k \in DOMAIN children |-> <<>>],
                   level, newp)
        \o SolItems(i, level, newp)

\* Mutant of CallItems: a frame already printed is not entered again.
CallItemsVisitedOnce(i, level, newp) ==
    LET children ==
            SelectSeq(TreeGet(tree, walnut[i].call_id),
                      LAMBDA c : c # i /\ \A a \in DOMAIN out :
                                    ~(out[a].kind = "call" /\ out[a].idx = c))
    IN  SolItems(i, level, newp)
        \o ChildItems("call", children, [k \in DOMAIN children |-> <<>>],
                      level, newp)

\* The recursive calls print_call_node makes for frame i, in order.
CallItems(i, level, newp) ==
    LET children == TreeGet(tree, walnut[i].call_id)
    IN  SolItems(i, level, newp)
        \o ChildItems("call", children, [k \in DOMAIN children |-> <<>>],
                      level, newp)

\* One invocation of print_call_node (lines 129-191), up to its recursive
\* calls, which are left pending in call order.
PrintCallNode ==
    /\ pc = "render"
    /\ stack # <<>>
    /\ Head(stack).kind = "call"
    /\ Head(stack).level < RecursionLimit
    /\ LET it == Head(stack)
           newp == Append(it.prefix, it.is_last)
       IN  /\ out' = out \o OwnLines(it.idx, it.level, it.is_last, it.prefix)
           /\ stack' = CallItems(it.idx, it.level, newp) \o Tail(stack)
    /\ UNCHANGED <<walnut_file, sol_file, service, pc, status, walnut,
                   sol_calls, map_i, sol_function_map, selector_cache,
                   requests, roots, tree>>

\* One invocation of print_sol_node (lines 58-74), up to its recursive calls.
PrintSolNode ==
    /\ pc = "render"
    /\ stack # <<>>
    /\ Head(stack).kind = "sol"
    /\ Head(stack).level < RecursionLimit
    /\ LET it == Head(stack)
           node == NodeIn(sol_calls, it.path)
           raw == node.input.raw
           newp == Append(it.prefix, it.is_last)
       IN  \E resp \in service :
             LET d == decode_selector(raw, resp, selector_cache)
             IN  /\ selector_cache' = d.cache
                 /\ requests' = Logged(raw, resp, d)
                 /\ IF d.raised
                    THEN /\ out' = Append(out, Traceback(d.exc))
                         /\ pc' = "failed"
                         /\ UNCHANGED stack
                    ELSE /\ out' = Append(out, Line("sol", 0, 0, it.path,
                                                    it.level, it.is_last,
                                                    it.prefix, d.sig))
                         /\ stack' =
                              ChildItems("sol",
                                         [k \in DOMAIN node.calls |-> 0],
                                         [k \in DOMAIN node.calls |->
                                             Append(it.path, k)],
                                         it.level, newp)
                              \o Tail(stack)
                         /\ UNCHANGED pc
    /\ UNCHANGED <<walnut_file, sol_file, service, status, walnut, sol_calls,
                   map_i, sol_function_map, roots, tree>>

\* The recursion of print_call_node / print_sol_node passes the interpreter's
\* limit: RecursionError, which nothing catches.
RecursionError ==
    /\ pc = "render"
    /\ stack # <<>>
    /\ Head(stack).level >= RecursionLimit
    /\ out' = Append(out, Traceback("RecursionError"))
    /\ pc' = "failed"
    /\ UNCHANGED <<walnut_file, sol_file, service, status, walnut, sol_calls,
                   map_i, sol_function_map, selector_cache, requests, roots,
                   tree, stack>>

\* The loop over roots has ended: main returns, exit status 0.
MainReturn ==
    /\ pc = "render"
    /\ stack = <<>>
    /\ pc' = "done"
    /\ UNCHANGED <<walnut_file, sol_file, service, status, walnut, sol_calls,
                   map_i, sol_function_map, selector_cache, requests, roots,
                   tree, stack, out>>

Next ==
    \/ LoadWalnut
    \/ ErrorSummary
    \/ LoadSol
    \/ CreateSolFunctionMap
    \/ BuildCallTree
    \/ PrintCallNode
    \/ PrintSolNode
    \/ RecursionError
    \/ MainReturn

Spec == Init /\ [][Next]_vars

\* The process's exit status once it has ended.
ExitStatus == IF pc = "done" THEN 0 ELSE 1

----------------------------------------------------------------------------
(* The parent links of a frame list, as a graph *)

\* Frame j is in the child list of frame i (tree[call_id of i] holds j).
IsChild(calls, i, j) ==
    /\ calls[j].parent_call_id # 0
    /\ calls[j].parent_call_id = calls[i].call_id

ChildrenOf(calls, S) ==
    {j \in DOMAIN calls : \E i \in S : IsChild(calls, i, j)}

\* S with everything below it, after at most n more generations.
RECURSIVE Below(_, _, _)
Below(calls, S, n) ==
    IF n = 0 THEN S
    ELSE Below(calls, S \cup ChildrenOf(calls, S), n - 1)

RootsOf(calls) == {i \in DOMAIN calls : calls[i].parent_call_id = 0}

\* The frames a traversal from the roots reaches.
ReachedOf(calls) == Below(calls, RootsOf(calls), Len(calls))

\* Frame i is a proper descendant of itself.
OnCycle(calls, i) ==
    i \in Below(calls, ChildrenOf(calls, {i}), Len(calls))

UniqueIds(calls) ==
    \A i, j \in DOMAIN calls : calls[i].call_id = calls[j].call_id => i = j

\* A frame whose non-zero parent identifier is no frame's identifier.
IsOrphan(calls, i) ==
    /\ calls[i].parent_call_id # 0
    /\ \A j \in DOMAIN calls : calls[j].call_id # calls[i].parent_call_id

IsForest(calls) ==
    /\ UniqueIds(calls)
    /\ \A i \in DOMAIN calls : ~IsOrphan(calls, i) /\ ~OnCycle(calls, i)

----------------------------------------------------------------------------
(* Reading the console *)

CallLines == {a \in DOMAIN out : out[a].kind = "call"}

\* How many times frame i's header line has been printed.
Emitted(i) == Cardinality({a \in CallLines : out[a].idx = i})

Pending(i) ==
    Cardinality({k \in DOMAIN stack :
                    stack[k].kind = "call" /\ stack[k].idx = i})

FirstPos(i) ==
    CHOOSE a \in CallLines :
        /\ out[a].idx = i
        /\ \A b \in CallLines : out[b].idx = i => a <= b

RecursionFailed ==
    /\ pc = "failed"
    /\ out[Len(out)] = Traceback("RecursionError")

\* The header line under which the header line at a was printed: the last
\* one before it that is less deep (0 when there is none).
EnclosingLine(a) ==
    IF \E b \in CallLines : b < a /\ out[b].level < out[a].level
    THEN CHOOSE b \in CallLines :
            /\ b < a /\ out[b].level < out[a].level
            /\ \A c \in CallLines :
                  (c < a /\ out[c].level < out[a].level) => c <= b
    ELSE 0

----------------------------------------------------------------------------
(* C1 *)

\* C1: for a list of frames that is a forest (unique identifiers, every
\* non-zero parent identifier is some frame's identifier, no cycle), the
\* finished rendering holds every frame's header exactly once, in pre-order:
\* a frame is printed at the top level iff its parent identifier is 0, and
\* any other frame is printed one level below, and inside the block of, the
\* frame whose identifier is its parent identifier.
C1_ForestVisitedOnceInPreOrder ==
    (pc = "done" /\ IsForest(walnut)) =>
        /\ \A i \in DOMAIN walnut : Emitted(i) = 1
        /\ \A a \in CallLines :
              LET c == walnut[out[a].idx]
                  b == EnclosingLine(a)
              IN  /\ (out[a].level = 0) <=> (c.parent_call_id = 0)
                  /\ out[a].level > 0 =>
                        /\ b # 0
                        /\ out[b].level = out[a].level - 1
                        /\ walnut[out[b].idx].call_id = c.parent_call_id

C1_Witness ==
    /\ pc = "done"
    /\ IsForest(walnut)
    /\ Len(walnut) = 3
    /\ walnut[1].parent_call_id # 0
    /\ \E a \in CallLines : out[a].level = 2

----------------------------------------------------------------------------
(* C2 *)

\* C2: of two frames with the same parent identifier (0 included) that have
\* both been printed, the one that comes first in the input list is printed
\* first.
C2_SiblingOrderIsInputOrder ==
    \A i, j \in DOMAIN walnut :
        (/\ i # j
         /\ walnut[i].parent_call_id = walnut[j].parent_call_id
         /\ Emitted(i) > 0
         /\ Emitted(j) > 0)
        => ((FirstPos(i) < FirstPos(j)) <=> (i < j))

C2_Witness ==
    /\ pc = "done"
    /\ UniqueIds(walnut)
    /\ \E i, j \in DOMAIN walnut :
          /\ i < j
          /\ walnut[i].parent_call_id # 0
          /\ walnut[i].parent_call_id = walnut[j].parent_call_id
          /\ Emitted(i) = 1 /\ Emitted(j) = 1
          /\ FirstPos(i) < FirstPos(j)

----------------------------------------------------------------------------
(* C10 *)

\* C10: when the identifiers of the frames are pairwise distinct, whatever
\* the parent identifiers are, rendering never runs into the recursion limit,
\* no frame is printed or pending more than once (so at most Len(walnut)
\* invocations are made), and the finished rendering holds exactly the
\* frames whose parent links lead to a frame with parent identifier 0.
C10_UniqueIdsRenderTerminates ==
    (pc \in {"render", "done", "failed"} /\ UniqueIds(walnut)) =>
        /\ ~RecursionFailed
        /\ \A i \in DOMAIN walnut : Emitted(i) + Pending(i) <= 1
        /\ pc = "done" =>
              \A i \in DOMAIN walnut :
                  (Emitted(i) = 1) <=> (i \in ReachedOf(walnut))

C10_Witness ==
    /\ pc = "done"
    /\ UniqueIds(walnut)
    /\ \E i, k \in DOMAIN walnut :
          /\ OnCycle(walnut, i) /\ walnut[i].parent_call_id # walnut[i].call_id
          /\ Emitted(k) = 1

----------------------------------------------------------------------------
(* C8 *)

\* Some frame that lies on a cycle of parent links is reached from a root.
CycleRendered(calls) ==
    \E i \in ReachedOf(calls) : OnCycle(calls, i)

HasCycle(calls) == \E i \in DOMAIN calls : OnCycle(calls, i)

\* C8 as stated: an input whose parent links form a cycle never finishes
\* rendering.
C8_CycleNeverCompletes ==
    HasCycle(walnut) => pc # "done"

\* C8 as amended: rendering never finishes when a frame on a cycle is
\* reached from a root (two frames then share an identifier), and the
\* recursion limit is hit in no other case; a cycle that no root reaches is
\* never printed.
C8_ReachedCycleNeverCompletes ==
    pc \in {"render", "done", "failed"} =>
        /\ CycleRendered(walnut) => (pc # "done" /\ ~UniqueIds(walnut))
        /\ RecursionFailed => CycleRendered(walnut)
        /\ ~CycleRendered(walnut) =>
              \A a \in CallLines : ~OnCycle(walnut, out[a].idx)

C8_Witness ==
    /\ RecursionFailed
    /\ CycleRendered(walnut)
    /\ \E i \in DOMAIN walnut : walnut[i].call_id # walnut[i].parent_call_id
                                 /\ OnCycle(walnut, i) /\ Emitted(i) > 1

----------------------------------------------------------------------------
(* C7 *)

TreeKinds == {"call", "error_message", "arg"}

\* The lines of the rendered tree that come from frames.
TreeLines == SelectSeq(out, LAMBDA l : l.kind \in TreeKinds)

\* The frame lines of print_call_node for frame i of calls and, recursively,
\* for its children in t.
RECURSIVE RenderNode(_, _, _, _, _, _)
RenderNode(calls, t, i, level, is_last, prefix) ==
    IF level >= RecursionLimit THEN <<>>
    ELSE LET ch == TreeGet(t, calls[i].call_id)
         IN  OwnLinesOf(calls[i], i, level, is_last, prefix)
             \o Concat([k \in DOMAIN ch |->
                          RenderNode(calls, t, ch[k], level + 1, k = Len(ch),
                                     Append(prefix, is_last))])

\* The frame lines main prints for a list of frames.
RenderCalls(calls) ==
    LET b == build_call_tree(calls)
    IN  Concat([k \in DOMAIN b.roots |->
                  RenderNode(calls, b.tree, b.roots[k], 0,
                             k = Len(b.roots), <<>>)])

\* The list without its frame o, and a line about the shorter list's frame
\* as a line about the same frame of the full list.
Without(calls, o) ==
    [k \in 1..(Len(calls) - 1) |-> IF k < o THEN calls[k] ELSE calls[k + 1]]

Reindexed(lines, o) ==
    [a \in DOMAIN lines |->
        [lines[a] EXCEPT !.idx = IF @ < o THEN @ ELSE @ + 1]]

Orphans == {o \in DOMAIN walnut : IsOrphan(walnut, o)}

\* C7 as stated: an orphan frame never produces an output line.
C7_OrphanPrintsNothing ==
    \A o \in Orphans : \A a \in DOMAIN out : out[a].idx # o

\* C7 as amended: an orphan frame never produces a line of the rendered
\* tree, the recursion limit is hit only if it would be hit without the
\* orphan, and the finished tree is line for line the tree of the list
\* without the orphan.  (The error summary above the tree can still be
\* about the orphan.)
C7_OrphanDroppedFromTree ==
    \A o \in Orphans :
        /\ \A a \in DOMAIN out : out[a].kind \in TreeKinds => out[a].idx # o
        /\ RecursionFailed => CycleRendered(Without(walnut, o))
        /\ pc = "done" =>
              TreeLines = Reindexed(RenderCalls(Without(walnut, o)), o)

C7_Witness ==
    /\ pc = "done"
    /\ UniqueIds(walnut)
    /\ \E o \in Orphans, i \in DOMAIN walnut :
          /\ o < i
          /\ Emitted(i) = 1
          /\ \E a \in DOMAIN out : out[a].kind = "summary_function"
                                   /\ out[a].idx = o

----------------------------------------------------------------------------
(* C6 *)

BadFile(f) == f.stat \in {"missing", "unreadable", "invalid_json"}

Diagnosed ==
    \E a \in DOMAIN out : out[a].kind \in {"no_such_file", "traceback"}

\* C6: when the primary or the secondary path names a file that is missing,
\* unreadable or not JSON, the tree is never rendered and the process ends
\* with a non-zero exit status and a diagnostic.
C6_BadFileIsFatal ==
    (BadFile(walnut_file) \/ (walnut_file.stat = "ok" /\ BadFile(sol_file))) =>
        /\ \A a \in DOMAIN out : out[a].kind # "tree_header"
        /\ pc # "done"
        /\ pc = "failed" => (ExitStatus = 1 /\ Diagnosed)

----------------------------------------------------------------------------
(* C3 *)

SolLines == {a \in DOMAIN out : out[a].kind = "sol"}

\* C3: no identifier is requested from the directory twice; what a request
\* returned (signature or fallback) is in the cache, the cache holds nothing
\* else and still holds every value as it was stored, and every decoded
\* selector printed is the cached value.
C3_OneLookupPerSelector ==
    /\ \A a, b \in DOMAIN requests :
          requests[a].sel = requests[b].sel => a = b
    /\ DOMAIN selector_cache = {requests[a].sel : a \in DOMAIN requests}
    /\ \A a \in DOMAIN requests :
          selector_cache[requests[a].sel] = requests[a].sig
    /\ \A a \in SolLines :
          LET raw == NodeIn(sol_calls, out[a].path).input.raw
          IN  raw \in DOMAIN selector_cache /\ out[a].text = selector_cache[raw]

\* The failed lookup of a selector used by two calls is made once; the
\* second call and the splice print the cached fallback.
C3_Witness ==
    /\ pc = "done"
    /\ Len(sol_calls) = 2
    /\ sol_calls[1].input.raw = sol_calls[2].input.raw
    /\ Len(requests) = 1
    /\ requests[1].resp.kind = "timeout"
    /\ map_i = 3

----------------------------------------------------------------------------
(* C4 *)

\* The lookup failed: the transport, the status, the body or the result list.
FailedLookup(resp) ==
    \/ resp.kind \in {"connection_error", "timeout", "http_error",
                      "invalid_json", "not_object"}
    \/ resp.results = <<>>
    \/ ~resp.results[1].has_text_signature

\* C4: a request that failed made decode_selector return the identifier it
\* was given, no exception left decode_selector, and any other request made
\* it return the first result's text signature.
C4_FailedLookupFallsBack ==
    \A a \in DOMAIN requests :
        LET r == requests[a]
        IN  /\ ~r.raised
            /\ FailedLookup(r.resp) => r.sig = r.sel
            /\ ~FailedLookup(r.resp) =>
                  r.sig = r.resp.results[1].text_signature

C4_Witness ==
    /\ pc = "done"
    /\ Len(requests) = 2
    /\ requests[1].resp.kind = "not_object"
    /\ requests[1].sig = requests[1].sel
    /\ requests[2].resp.kind = "json"
    /\ requests[2].sig = "g()"

----------------------------------------------------------------------------
(* C5, C9 *)

\* The number of lines print_call_node prints for frame i itself.
OwnCount(i) ==
    1 + (IF walnut[i].error /\ walnut[i].error_message THEN 1 ELSE 0)
      + walnut[i].nargs

\* A secondary call's line directly follows the own lines of the frame
\* whose header is line a.
Spliced(a) ==
    LET n == a + OwnCount(out[a].idx)
    IN  n <= Len(out) /\ out[n].kind = "sol"

\* C5: in the finished rendering, a frame whose bare name is in the function
\* map has that name's secondary call spliced under it iff that call's input
\* length - 10 equals the frame's argument count - 2; a frame whose bare
\* name is not in the map has none.
C5_MatchIffCountsEqual ==
    pc = "done" =>
        \A a \in CallLines :
            LET c == walnut[out[a].idx]
                dfn == c.function[IF Len(c.function) = 1 THEN 1
                                  ELSE Len(c.function) - 1]
                n == a + OwnCount(out[a].idx)
            IN  IF dfn \in DOMAIN sol_function_map
                THEN LET t == sol_function_map[dfn]
                     IN  /\ Spliced(a) <=>
                               (sol_calls[t].input.len - 10 = c.nargs - 2)
                         /\ Spliced(a) =>
                               /\ out[n].path = <<t>>
                               /\ out[n].level = out[a].level + 1
                ELSE ~Spliced(a)

C5_Witness ==
    /\ pc = "done"
    /\ Len(walnut) = 2
    /\ walnut[1].nargs = 4
    /\ Len(sol_calls) = 2
    /\ sol_calls[1].input.len = 13
    /\ sol_calls[2].input.len = 12
    /\ sol_function_map = [n \in {"f"} |-> 2]
    /\ Spliced(1 + 1)

\* The paths of a secondary call and of everything below it, in pre-order.
RECURSIVE PreOrder(_)
PreOrder(path) ==
    LET node == NodeIn(sol_calls, path)
    IN  <<path>> \o Concat([k \in DOMAIN node.calls |->
                               PreOrder(Append(path, k))])

Matched(i) ==
    LET dfn == extract_function_name(walnut[i].function)
    IN  /\ dfn \in DOMAIN sol_function_map
        /\ matches_argument_pattern(walnut[i].nargs,
                                    sol_calls[sol_function_map[dfn]])

\* C9: in the finished rendering, the own lines of a frame (header, error
\* message, arguments) are followed, when the frame is matched, by the lines
\* of the matched secondary call and of its whole subtree in pre-order, each
\* one level deeper than its parent, and only then by a frame's header; when
\* the frame is not matched they are followed directly by a frame's header
\* (or by nothing).
C9_SpliceBeforeChildren ==
    pc = "done" =>
        \A a \in CallLines :
            LET i == out[a].idx
                n == a + OwnCount(i)
                paths == IF Matched(i)
                         THEN PreOrder(<<sol_function_map[
                                  extract_function_name(walnut[i].function)]>>)
                         ELSE <<>>
                m == n + Len(paths)
            IN  /\ \A b \in (a + 1)..(n - 1) :
                      out[b].kind \in {"error_message", "arg"} /\ out[b].idx = i
                /\ m <= Len(out) + 1
                /\ \A k \in DOMAIN paths :
                      /\ out[n + k - 1].kind = "sol"
                      /\ out[n + k - 1].path = paths[k]
                      /\ out[n + k - 1].level = out[a].level + Len(paths[k])
                /\ m <= Len(out) => out[m].kind = "call"

C9_Witness ==
    /\ pc = "done"
    /\ Len(walnut) = 2
    /\ walnut[1].function = <<"m", "f", "h1">>
    /\ Matched(1)
    /\ sol_calls[sol_function_map["f"]].calls = SolSubtree
    /\ walnut[1].nargs = 3
    /\ \E a \in CallLines : out[a].idx = 2 /\ a = 1 + 4 + 4 + 1

====
